---- MODULE Spec2Model ----
(***************************************************************************)
(* A model of the musttag analyzer (musttag.go): run, tagAndExpr,          *)
(* structAndPos and checkStruct, over a bounded universe of Go types,      *)
(* expressions and call sites.                                             *)
(*                                                                         *)
(* Strings are sequences of one-character strings.  Types are records      *)
(* tagged by the go/types kind: Basic, Named, Pointer, Struct, Slice,      *)
(* Interface.  Expressions are records tagged by the go/ast node kind.     *)
(***************************************************************************)
EXTENDS Integers, Sequences, FiniteSets

VARIABLES
    decls,     \* the unit's named types: name -> underlying type (types.Named)
    calls,     \* the unit's call expressions in traversal order (inspect.Preorder)
    idx,       \* number of call expressions the callback has been run on
    reported,  \* run: the map `reported` (a set of [pos, tag])
    diags,     \* the diagnostics handed to pass.Reportf, in order
    pc,        \* "running", "done", or the Go fault that ended the run
    arg,       \* the input of the function applied (function-level specifications)
    ret        \* what it returned ("none" before it returned)

vars == <<decls, calls, idx, reported, diags, pc, arg, ret>>

----------------------------------------------------------------------------
(* Bounds of the model.                                                    *)

\* most fields of record A where checkStruct is applied on its own
MaxFields == 2
\* most fields of record A in a unit that run analyses
MaxUnitFields == 1
\* most call expressions of a unit
MaxCalls == 2
\* most pieces a raw struct tag is assembled from
MaxPieces == 4
\* frames of checkStruct the goroutine stack holds before the runtime
\* ends the process with "fatal error: stack overflow"
MaxStack == 8

----------------------------------------------------------------------------
(* Strings.                                                                *)

jsonTag == <<"j", "s", "o", "n">>

\* strings.Index(s, sep) for a one-character sep: the first place of sep, 0 if none
IndexOf(s, sep) ==
    IF \E i \in 1..Len(s) : s[i] = sep
    THEN CHOOSE i \in 1..Len(s) : s[i] = sep /\ \A j \in 1..(i - 1) : s[j] # sep
    ELSE 0

RECURSIVE Split(_, _)
\* strings.Split(s, sep) for a one-character sep
Split(s, sep) ==
    LET i == IndexOf(s, sep)
    IN  IF i = 0 THEN <<s>>
        ELSE <<SubSeq(s, 1, i - 1)>> \o Split(SubSeq(s, i + 1, Len(s)), sep)

\* strings.HasPrefix(t, prefix)
HasPrefix(t, prefix) ==
    Len(t) >= Len(prefix) /\ SubSeq(t, 1, Len(prefix)) = prefix

\* strings.Split cutting at every whitespace character, not at the space alone
TaggedAnyWhitespace(rawTag, tag) ==
    LET atSpaces == Split(rawTag, " ")
        toks == UNION {{Split(atSpaces[k], "\t")[m] :
                          m \in 1..Len(Split(atSpaces[k], "\t"))} :
                       k \in 1..Len(atSpaces)}
    IN  \E t \in toks : HasPrefix(t, tag \o <<":">>)

\* the `tagged` flag asking for a token equal to `tag:`, not one starting with it
TaggedExact(rawTag, tag) ==
    LET toks == Split(rawTag, " ")
    IN  \E k \in 1..Len(toks) : toks[k] = tag \o <<":">>

\* the `tagged` flag checkStruct computes for one field's raw tag
Tagged(rawTag, tag) ==
    LET toks == Split(rawTag, " ")
    IN  \E k \in 1..Len(toks) : HasPrefix(toks[k], tag \o <<":">>)

----------------------------------------------------------------------------
(* Types (go/types).                                                       *)

NamedIds == {"A", "B", "C"}

Basic == [kind |-> "Basic"]
Interface == [kind |-> "Interface"]
Named(n) == [kind |-> "Named", name |-> n]
Pointer(t) == [kind |-> "Pointer", elem |-> t]
Slice(t) == [kind |-> "Slice", elem |-> t]
Struct(fs) == [kind |-> "Struct", fields |-> fs]

\* one field of a struct: s.Field(i).Exported(), s.Tag(i), s.Field(i).Type()
Field(exported, rawTag, typ) == [exported |-> exported, tag |-> rawTag, typ |-> typ]

\* t.Obj().Pos(): the declaration position of a named type
NamedPos(n) == CASE n = "A" -> 1 [] n = "B" -> 2 [] n = "C" -> 3

\* t.Underlying() in the unit whose named types are D
Underlying(D, t) == IF t.kind = "Named" THEN D[t.name] ELSE t

\* `if ptr, ok := t.(*types.Pointer); ok { t = ptr.Elem() }`
Unwrap(t) == IF t.kind = "Pointer" THEN t.elem ELSE t

\* what a call of checkStruct leaves: its result, *pos, and whether the
\* recursion ran out of stack instead of returning
Returned(ok, pos) == [ok |-> ok, pos |-> pos, fault |-> FALSE]
StackOverflow(pos) == [ok |-> FALSE, pos |-> pos, fault |-> TRUE]

RECURSIVE checkStructNoSkip(_, _, _, _, _, _)
\* checkStruct without the `continue` for fields that are not exported
checkStructNoSkip(D, s, tag, pos, i, depth) ==
    IF i > Len(s.fields) THEN Returned(TRUE, pos)
    ELSE LET f == s.fields[i]
             t == Unwrap(f.typ)
             nested == Underlying(D, t)
         IN  IF ~Tagged(f.tag, tag) THEN Returned(FALSE, pos)
             ELSE IF nested.kind # "Struct"
                  THEN checkStructNoSkip(D, s, tag, pos, i + 1, depth)
             ELSE IF depth + 1 > MaxStack THEN StackOverflow(pos)
             ELSE LET r == checkStructNoSkip(D, nested, tag, pos, 1, depth + 1)
                  IN  IF r.fault THEN r
                      ELSE IF r.ok THEN checkStructNoSkip(D, s, tag, r.pos, i + 1, depth)
                      ELSE Returned(FALSE, IF t.kind = "Named" THEN NamedPos(t.name)
                                           ELSE r.pos)

RECURSIVE checkStructFrom(_, _, _, _, _, _)
\* checkStruct's loop from field i on, in the frame at `depth` of the stack:
\* the unit's named types are D, pos is the value of *pos on entry
checkStructFrom(D, s, tag, pos, i, depth) ==
    IF i > Len(s.fields) THEN Returned(TRUE, pos)
    ELSE LET f == s.fields[i]
             t == Unwrap(f.typ)
             nested == Underlying(D, t)
         IN  IF ~f.exported THEN checkStructFrom(D, s, tag, pos, i + 1, depth)
             ELSE IF ~Tagged(f.tag, tag) THEN Returned(FALSE, pos)
             ELSE IF nested.kind # "Struct"
                  THEN checkStructFrom(D, s, tag, pos, i + 1, depth)
             ELSE IF depth + 1 > MaxStack THEN StackOverflow(pos)
             ELSE LET r == checkStructFrom(D, nested, tag, pos, 1, depth + 1)
                  IN  IF r.fault THEN r
                      ELSE IF r.ok THEN checkStructFrom(D, s, tag, r.pos, i + 1, depth)
                      ELSE Returned(FALSE, IF t.kind = "Named" THEN NamedPos(t.name)
                                           ELSE r.pos)

\* checkStruct(s, tag, &pos) called from run, in the unit's types
checkStruct(s, tag, pos) == checkStructFrom(decls, s, tag, pos, 1, 1)

----------------------------------------------------------------------------
(* Expressions (go/ast) and their static types (pass.TypesInfo).           *)

Chan(t) == [kind |-> "Chan", elem |-> t]

\* an identifier: resolved says whether the parser set Ident.Obj (it is nil
\* for a name declared in another file), objPos is Obj.Pos()
Ident(resolved, objPos, typ) ==
    [node |-> "Ident", resolved |-> resolved, objPos |-> objPos, typ |-> typ]
\* &X or <-X
UnaryExpr(op, X) == [node |-> "UnaryExpr", op |-> op, X |-> X]
\* *X
StarExpr(X) == [node |-> "StarExpr", X |-> X]
\* T{...} at position pos
CompositeLit(pos, typ) == [node |-> "CompositeLit", pos |-> pos, typ |-> typ]
\* any other node (a selector, a call, a parenthesized expression) of type typ
OtherExpr(typ) == [node |-> "OtherExpr", typ |-> typ]

RECURSIVE TypeOf(_)
\* pass.TypesInfo.TypeOf(expr)
TypeOf(expr) ==
    CASE expr.node = "UnaryExpr" ->
            IF expr.op = "&" THEN Pointer(TypeOf(expr.X)) ELSE TypeOf(expr.X).elem
      [] expr.node = "StarExpr" -> TypeOf(expr.X).elem
      [] OTHER -> expr.typ

\* the results of structAndPos, and the nil dereference of `arg.Obj.Pos()`
Resolved(s, pos) == [ok |-> TRUE, s |-> s, pos |-> pos, fault |-> FALSE]
NotResolved == [ok |-> FALSE, s |-> Basic, pos |-> 0, fault |-> FALSE]
NilDereference == [ok |-> FALSE, s |-> Basic, pos |-> 0, fault |-> TRUE]

RECURSIVE UnwrapAll(_)
\* every level of indirection removed
UnwrapAll(t) == IF t.kind = "Pointer" THEN UnwrapAll(t.elem) ELSE t

\* structAndPos removing every level of indirection
structAndPosUnwrapAll(expr) ==
    LET t == UnwrapAll(TypeOf(expr))
        e == IF expr.node = "UnaryExpr" THEN expr.X ELSE expr
    IN  CASE t.kind = "Named" ->
                IF decls[t.name].kind = "Struct"
                THEN Resolved(decls[t.name], NamedPos(t.name))
                ELSE NotResolved
          [] t.kind = "Struct" ->
                CASE e.node = "Ident" ->
                        IF e.resolved THEN Resolved(t, e.objPos) ELSE NilDereference
                  [] e.node = "CompositeLit" -> Resolved(t, e.pos)
                  [] OTHER -> NotResolved
          [] OTHER -> NotResolved

\* structAndPos without `expr = unary.X`
structAndPosNoUnary(expr) ==
    LET t == Unwrap(TypeOf(expr))
    IN  CASE t.kind = "Named" ->
                IF decls[t.name].kind = "Struct"
                THEN Resolved(decls[t.name], NamedPos(t.name))
                ELSE NotResolved
          [] t.kind = "Struct" ->
                CASE expr.node = "Ident" ->
                        IF expr.resolved THEN Resolved(t, expr.objPos) ELSE NilDereference
                  [] expr.node = "CompositeLit" -> Resolved(t, expr.pos)
                  [] OTHER -> NotResolved
          [] OTHER -> NotResolved

\* structAndPos(pass, expr)
structAndPos(expr) ==
    LET t == Unwrap(TypeOf(expr))
        e == IF expr.node = "UnaryExpr" THEN expr.X ELSE expr
    IN  CASE t.kind = "Named" ->
                IF decls[t.name].kind = "Struct"
                THEN Resolved(decls[t.name], NamedPos(t.name))
                ELSE NotResolved
          [] t.kind = "Struct" ->
                CASE e.node = "Ident" ->
                        IF e.resolved THEN Resolved(t, e.objPos) ELSE NilDereference
                  [] e.node = "CompositeLit" -> Resolved(t, e.pos)
                  [] OTHER -> NotResolved
          [] OTHER -> NotResolved

----------------------------------------------------------------------------
(* Call expressions.                                                       *)

\* typeutil.StaticCallee found no function (a call through a variable, a
\* conversion, a builtin)
NilFunc == "nil"

\* a call expression: fn is fn.FullName() of its static callee, or NilFunc
CallExpr(fn, args) == [fn |-> fn, args |-> args]

\* the results of tagAndExpr, and the panic of indexing call.Args out of range
Match(tag, expr) == [ok |-> TRUE, tag |-> tag, expr |-> expr, fault |-> FALSE]
NoMatch == [ok |-> FALSE, tag |-> <<>>, expr |-> OtherExpr(Basic), fault |-> FALSE]
IndexOutOfRange == [ok |-> FALSE, tag |-> <<>>, expr |-> OtherExpr(Basic), fault |-> TRUE]

\* call.Args[i], Go's 0-based index
ArgAt(call, i) ==
    IF i + 1 <= Len(call.args) THEN Match(jsonTag, call.args[i + 1]) ELSE IndexOutOfRange

\* tagAndExpr(pass, call)
tagAndExpr(call) ==
    IF call.fn = NilFunc THEN NoMatch
    ELSE CASE call.fn \in {"encoding/json.Marshal",
                           "encoding/json.MarshalIndent",
                           "(*encoding/json.Encoder).Encode",
                           "(*encoding/json.Decoder).Decode"} -> ArgAt(call, 0)
           [] call.fn = "encoding/json.Unmarshal" -> ArgAt(call, 1)
           [] OTHER -> NoMatch

----------------------------------------------------------------------------
(* The units analysed: named types A, B, C and the calls that use them.    *)

SeqsUpTo(S, n) == UNION {[1..k -> S] : k \in 0..n}

jsonA == jsonTag \o <<":", "\"", "a", "\"">>
NoTag == <<>>

\* X int
Bad == Field(TRUE, NoTag, Basic)
\* X int `json:"a"`
Good == Field(TRUE, jsonA, Basic)
\* X T `json:"a"`
TaggedOf(typ) == Field(TRUE, jsonA, typ)

\* the fields record A is built from where checkStruct is applied on its own
FieldsA ==
    {Bad, Good, Field(FALSE, NoTag, Basic), Field(FALSE, NoTag, Named("C")),
     Field(TRUE, NoTag, Named("C")),
     TaggedOf(Named("B")), TaggedOf(Pointer(Named("B"))), TaggedOf(Named("C")),
     TaggedOf(Pointer(Named("A"))), TaggedOf(Pointer(Pointer(Named("C")))),
     TaggedOf(Slice(Named("C"))), TaggedOf(Struct(<<Bad>>)),
     TaggedOf(Struct(<<TaggedOf(Named("C"))>>))}

\* the one field of record B
FieldsB ==
    {Bad, Good, Field(FALSE, NoTag, Basic), TaggedOf(Named("C")),
     TaggedOf(Pointer(Named("C"))), TaggedOf(Pointer(Named("B"))),
     TaggedOf(Pointer(Named("A")))}

\* what C names: a record of one field, or no record at all (type C int)
TypesC == {Struct(<<Bad>>), Struct(<<Good>>), Basic}

\* the named types checkStruct is applied in
CheckDecls ==
    {[n \in NamedIds |-> CASE n = "A" -> Struct(fa) [] n = "B" -> Struct(<<fb>>) [] n = "C" -> tc] :
        fa \in SeqsUpTo(FieldsA, MaxFields), fb \in FieldsB, tc \in TypesC}

\* the named types of the units run analyses
UnitDecls ==
    {[n \in NamedIds |-> CASE n = "A" -> Struct(fa) [] n = "B" -> Struct(<<fb>>) [] n = "C" -> tc] :
        fa \in SeqsUpTo({Bad, Good, TaggedOf(Named("B")), TaggedOf(Pointer(Named("A")))},
                        MaxUnitFields),
        fb \in {Bad, Good, TaggedOf(Named("C")), TaggedOf(Pointer(Named("B")))},
        tc \in {Struct(<<Bad>>), Struct(<<Good>>)}}

\* var a A; var b B; var c C; var data []byte
VarA == Ident(TRUE, 11, Named("A"))
VarB == Ident(TRUE, 12, Named("B"))
VarC == Ident(TRUE, 13, Named("C"))
VarData == Ident(TRUE, 14, Slice(Basic))
\* struct{ X int }{} written at position 21
LitBad == CompositeLit(21, Struct(<<Bad>>))

\* the call expressions a unit is made of
CallSet ==
    {CallExpr("encoding/json.Marshal", <<VarA>>),
     CallExpr("encoding/json.Unmarshal", <<VarData, UnaryExpr("&", VarA)>>),
     \* json.Unmarshal(f()) with func f() ([]byte, any): one argument expression
     CallExpr("encoding/json.Unmarshal", <<OtherExpr(Basic)>>),
     CallExpr("encoding/json.MarshalIndent", <<VarB>>),
     CallExpr("(*encoding/json.Encoder).Encode", <<VarC>>),
     CallExpr("(*encoding/json.Decoder).Decode", <<UnaryExpr("&", LitBad)>>),
     \* json.Marshal(x) with var x struct{ X int } declared in another file
     CallExpr("encoding/json.Marshal", <<Ident(FALSE, 0, Struct(<<Bad>>))>>),
     CallExpr("fmt.Println", <<VarA>>),
     CallExpr(NilFunc, <<VarA>>)}

----------------------------------------------------------------------------
(* run: the callback of inspect.Preorder, once per call expression.        *)

Init ==
    /\ decls \in UnitDecls
    /\ calls \in SeqsUpTo(CallSet, MaxCalls)
    /\ idx = 0
    /\ reported = {}
    /\ diags = <<>>
    /\ pc = "running"
    /\ arg = <<>>
    /\ ret = <<>>

\* the callback returns without reporting
Return == UNCHANGED <<reported, diags, pc>>

\* the callback panics, or the runtime ends the process: the run is over
Abort(why) == pc' = why /\ UNCHANGED <<reported, diags>>

\* the dedup without the membership test
ReportAlways(pos, tag) ==
    LET r == [pos |-> pos, tag |-> tag]
    IN  /\ reported' = reported \cup {r}
        /\ diags' = Append(diags, r)
        /\ UNCHANGED pc

\* `if _, ok := reported[r]; !ok { reported[r] = struct{}{}; pass.Reportf(...) }`
Report(pos, tag) ==
    LET r == [pos |-> pos, tag |-> tag]
    IN  /\ IF r \notin reported
           THEN reported' = reported \cup {r} /\ diags' = Append(diags, r)
           ELSE UNCHANGED <<reported, diags>>
        /\ UNCHANGED pc

\* the callback on the next call expression
Visit ==
    /\ pc = "running"
    /\ idx < Len(calls)
    /\ idx' = idx + 1
    /\ LET call == calls[idx + 1]
           m == tagAndExpr(call)
           r == structAndPos(m.expr)
           c == checkStruct(r.s, m.tag, r.pos)
       IN  IF m.fault THEN Abort("panic: index out of range")
           ELSE IF ~m.ok THEN Return
           ELSE IF r.fault THEN Abort("panic: nil pointer dereference")
           ELSE IF ~r.ok THEN Return
           ELSE IF c.fault THEN Abort("fatal error: stack overflow")
           ELSE IF c.ok THEN Return
           ELSE Report(c.pos, m.tag)
    /\ UNCHANGED <<decls, calls, arg, ret>>

\* Preorder has visited every call expression: run returns
Finish ==
    /\ pc = "running"
    /\ idx = Len(calls)
    /\ pc' = "done"
    /\ UNCHANGED <<decls, calls, idx, reported, diags, arg, ret>>

Next == Visit \/ Finish

Spec == Init /\ [][Next]_vars

----------------------------------------------------------------------------
(* checkStruct applied on its own to record A of a unit.                   *)

InitCheck ==
    /\ decls \in CheckDecls
    /\ arg = [name |-> "A", s |-> decls["A"], pos |-> NamedPos("A")]
    /\ ret = <<>>
    /\ pc = "running"
    /\ calls = <<>>
    /\ idx = 0
    /\ reported = {}
    /\ diags = <<>>

\* `checkStruct(s, tag, &pos)` with what structAndPos gave for a named record
CallCheckStruct ==
    /\ pc = "running"
    /\ ret' = checkStruct(arg.s, jsonTag, arg.pos)
    /\ pc' = IF ret'.fault THEN "fatal error: stack overflow" ELSE "returned"
    /\ UNCHANGED <<decls, calls, idx, reported, diags, arg>>

NextCheck == CallCheckStruct

SpecCheck == InitCheck /\ [][NextCheck]_vars

----------------------------------------------------------------------------
(* structAndPos applied on its own to an argument expression.              *)

\* struct{ X int }
AnonBad == Struct(<<Bad>>)

\* the static types of the argument expressions: up to two pointers deep
ArgTypes ==
    LET base == {Basic, Interface, Named("A"), Named("B"), Slice(Named("A")), AnonBad}
    IN  base \cup {Pointer(t) : t \in base} \cup {Pointer(Pointer(t)) : t \in base}
             \cup {Chan(AnonBad), Chan(Named("A"))}

\* variables (declared at 11 in this file, or in another file), literals
\* (written at 21) and other expressions (a selector x.f, a call f())
ArgIdents == {Ident(TRUE, 11, t) : t \in ArgTypes} \cup {Ident(FALSE, 0, t) : t \in ArgTypes}
ArgLits == {CompositeLit(21, t) : t \in {Named("A"), AnonBad, Slice(Named("A"))}}
ArgOthers == {OtherExpr(t) : t \in ArgTypes}

\* the argument expressions: the above, and &X, *X, <-X of them
ArgExprs ==
    LET base == ArgIdents \cup ArgLits \cup ArgOthers
    IN  base \cup {UnaryExpr("&", x) : x \in base}
             \cup {StarExpr(x) : x \in {y \in base : y.typ.kind = "Pointer"}}
             \cup {UnaryExpr("<-", x) : x \in {y \in base : y.typ.kind = "Chan"}}

\* A is a record, B is not (type B int), C is a record
ResolveDecls ==
    {[n \in NamedIds |-> CASE n = "A" -> Struct(<<fa>>) [] n = "B" -> tb [] n = "C" -> Struct(<<Good>>)] :
        fa \in {Bad, Good}, tb \in {Basic, Interface}}

InitResolve ==
    /\ decls \in ResolveDecls
    /\ arg \in ArgExprs
    /\ ret = <<>>
    /\ pc = "running"
    /\ calls = <<>>
    /\ idx = 0
    /\ reported = {}
    /\ diags = <<>>

\* `s, pos, ok := structAndPos(pass, expr)`
CallStructAndPos ==
    /\ pc = "running"
    /\ ret' = structAndPos(arg)
    /\ pc' = IF ret'.fault THEN "panic: nil pointer dereference" ELSE "returned"
    /\ UNCHANGED <<decls, calls, idx, reported, diags, arg>>

NextResolve == CallStructAndPos

SpecResolve == InitResolve /\ [][NextResolve]_vars

----------------------------------------------------------------------------
(* checkStruct applied to a record of one exported field with a raw tag.   *)

RECURSIVE Concat(_)
\* the pieces joined into one string
Concat(pieces) ==
    IF pieces = <<>> THEN <<>> ELSE Head(pieces) \o Concat(Tail(pieces))

\* what raw tags are assembled from: the key, a prefix of it, another
\* character (so `jsonx`, `xjson`), the colon, the space, the tab, the quote
TagPieces == {jsonTag, <<"j", "s", "o">>, <<"x">>, <<":">>, <<" ">>, <<"\t">>, <<"\"">>}

RawTags == {Concat(ps) : ps \in SeqsUpTo(TagPieces, MaxPieces)}

InitTag ==
    /\ decls = [n \in NamedIds |-> Basic]
    /\ arg \in RawTags
    /\ ret = <<>>
    /\ pc = "running"
    /\ calls = <<>>
    /\ idx = 0
    /\ reported = {}
    /\ diags = <<>>

\* checkStruct on struct{ X int `<arg>` }
CallCheckTag ==
    /\ pc = "running"
    /\ ret' = checkStruct(Struct(<<Field(TRUE, arg, Basic)>>), jsonTag, 1)
    /\ pc' = "returned"
    /\ UNCHANGED <<decls, calls, idx, reported, diags, arg>>

NextTag == CallCheckTag

SpecTag == InitTag /\ [][NextTag]_vars

----------------------------------------------------------------------------
(* What the claims speak of, stated apart from the code's own operators.   *)

\* rawTag holds a token that starts with `key:`, tokens being what lies
\* between the separator characters seps
HasKeyToken(rawTag, key, seps) ==
    \E p \in 1..Len(rawTag) :
        /\ p = 1 \/ rawTag[p - 1] \in seps
        /\ p + Len(key) <= Len(rawTag)
        /\ SubSeq(rawTag, p, p + Len(key) - 1) = key
        /\ rawTag[p + Len(key)] = ":"

\* the exported fields of record s
ExportedFields(s) == {s.fields[i] : i \in {j \in 1..Len(s.fields) : s.fields[j].exported}}

\* every exported field of record s carries the key
AllExportedTagged(s, key) == \A f \in ExportedFields(s) : HasKeyToken(f.tag, key, {" "})

\* the records nested in record s: the types of its exported fields, one
\* indirection removed
NestedRecords(D, s) ==
    {u \in {Underlying(D, Unwrap(f.typ)) : f \in ExportedFields(s)} : u.kind = "Struct"}

RECURSIVE RecordsWithin(_, _)
\* the records in S and those nested in them at any depth
RecordsWithin(D, S) ==
    LET more == S \cup UNION {NestedRecords(D, x) : x \in S}
    IN  IF more = S THEN S ELSE RecordsWithin(D, more)

\* record s and every record nested in it carry the key on every exported field
TransitivelyTagged(D, s, key) ==
    \A x \in RecordsWithin(D, {s}) : AllExportedTagged(x, key)

RECURSIVE FirstOffender(_, _, _, _, _)
\* the record that is at fault in record s, named who ("anon" if it has no
\* name): s itself if its first field at fault is an exported field without
\* the key, else the record at fault in that field's record; "none" if no
\* field is at fault within `fuel` levels
FirstOffender(D, who, s, i, fuel) ==
    IF i > Len(s.fields) \/ fuel = 0 THEN "none"
    ELSE LET f == s.fields[i]
             t == Unwrap(f.typ)
             u == Underlying(D, t)
             inner == FirstOffender(D, IF t.kind = "Named" THEN t.name ELSE "anon",
                                    u, 1, fuel - 1)
         IN  IF ~f.exported THEN FirstOffender(D, who, s, i + 1, fuel)
             ELSE IF ~HasKeyToken(f.tag, jsonTag, {" "}) THEN who
             ELSE IF u.kind = "Struct" /\ inner # "none" THEN inner
             ELSE FirstOffender(D, who, s, i + 1, fuel)

\* the name of the record type t is or points to
NameOf(t) == IF Unwrap(t).kind = "Named" THEN Unwrap(t).name ELSE "anon"

\* the call expressions the callback has been run on that matched a rule and
\* resolved to a record without a fault
Resolving(k) ==
    /\ tagAndExpr(calls[k]).ok
    /\ structAndPos(tagAndExpr(calls[k]).expr).ok

RecordOf(k) == structAndPos(tagAndExpr(calls[k]).expr).s
PosOf(k) == structAndPos(tagAndExpr(calls[k]).expr).pos
CheckOf(k) == checkStruct(RecordOf(k), jsonTag, PosOf(k))
OffenderOf(k) ==
    FirstOffender(decls, NameOf(TypeOf(tagAndExpr(calls[k]).expr)), RecordOf(k), 1, MaxStack)

\* the call is one no rule applies to: no static callee, a callee outside the
\* table, or fewer arguments than the rule's index needs
NotApplicable(call) ==
    \/ call.fn = NilFunc
    \/ call.fn \notin {"encoding/json.Marshal", "encoding/json.MarshalIndent",
                       "(*encoding/json.Encoder).Encode",
                       "(*encoding/json.Decoder).Decode", "encoding/json.Unmarshal"}
    \/ call.fn = "encoding/json.Unmarshal" /\ Len(call.args) < 2
    \/ Len(call.args) < 1

----------------------------------------------------------------------------
(* Claims about run.                                                       *)

\* C1: within one run a diagnostic is emitted at most once for a given
\* (position, key) pair, and the pairs emitted are exactly the seen set.
C1_AtMostOncePerPair ==
    /\ \A i, j \in 1..Len(diags) : diags[i] = diags[j] => i = j
    /\ reported = {diags[i] : i \in 1..Len(diags)}

\* C1 witness: two calls whose check failed at the same position have both
\* been visited, and one diagnostic stands.
C1_Witness ==
    /\ idx = 2
    /\ Resolving(1) /\ Resolving(2)
    /\ ~CheckOf(1).ok /\ ~CheckOf(1).fault
    /\ ~CheckOf(2).ok /\ ~CheckOf(2).fault
    /\ CheckOf(1).pos = CheckOf(2).pos
    /\ diags = <<[pos |-> CheckOf(1).pos, tag |-> jsonTag]>>

C2_OneDiagnosticPerRecord ==
    pc = "done" =>
        \A k \in 1..Len(calls) :
            (Resolving(k) /\ OffenderOf(k) \in NamedIds)
                => /\ ~CheckOf(k).ok
                   /\ Cardinality({i \in 1..Len(diags) :
                                     diags[i].pos = NamedPos(OffenderOf(k))}) = 1

\* C7: a call no rule applies to, an unknown callee or too few arguments for
\* the rule's index, gets "no match" from tagAndExpr and does not end the run.
C7_NotApplicableIsSkipped ==
    (idx >= 1 /\ NotApplicable(calls[idx]))
        => /\ tagAndExpr(calls[idx]) = NoMatch
           /\ pc # "panic: index out of range"

----------------------------------------------------------------------------
(* Claims about checkStruct.                                               *)

\* C4: when checkStruct fails because of a named record nested at any depth
\* under the record passed, the position it leaves is the declaration of the
\* record whose own field lacks the key, not of a record that wraps it.
C4_DeepestOffenderReported ==
    LET who == FirstOffender(decls, arg.name, arg.s, 1, MaxStack)
    IN  (pc = "returned" /\ ~ret.ok /\ who \in NamedIds \ {arg.name})
            => ret.pos = NamedPos(who)

\* C5: checkStruct returns on every type graph, a record that refers to
\* itself included, and returns true when every exported field within reach
\* carries the key.
C5_ReturnsOnSelfReference ==
    pc # "running" =>
        /\ pc = "returned"
        /\ TransitivelyTagged(decls, arg.s, jsonTag) => ret.ok

\* s with field f put before its k-th field
InsertAt(fs, k, f) == SubSeq(fs, 1, k - 1) \o <<f>> \o SubSeq(fs, k, Len(fs))
\* s without its k-th field
RemoveAt(fs, k) == SubSeq(fs, 1, k - 1) \o SubSeq(fs, k + 1, Len(fs))

\* the fields fs with one change to a field that is not exported: one such
\* field added anywhere (of a basic type, of record C, of a pointer to A),
\* removed, or given another raw tag
UnexportedChanges(fs) ==
    LET hidden == {k \in 1..Len(fs) : ~fs[k].exported}
    IN  {InsertAt(fs, k, f) :
            k \in 1..(Len(fs) + 1),
            f \in {Field(FALSE, NoTag, Basic), Field(FALSE, jsonA, Basic),
                   Field(FALSE, NoTag, Named("C")), Field(FALSE, jsonA, Pointer(Named("A")))}}
        \cup {RemoveAt(fs, k) : k \in hidden}
        \cup {[fs EXCEPT ![k].tag = tg] : k \in hidden, tg \in {NoTag, jsonA}}

\* C6: fields that are not exported never affect checkStruct: with such a
\* field added to, removed from or retagged in record A or B, the result and
\* the position left are the same.
C6_UnexportedIgnored ==
    pc # "running" =>
        \A n \in {"A", "B"} : \A fs \in UnexportedChanges(decls[n].fields) :
            LET D == [decls EXCEPT ![n] = Struct(fs)]
            IN  checkStructFrom(D, D[arg.name], jsonTag, arg.pos, 1, 1) = ret

\* C6 witness: checkStruct returned true on a record that holds a field, not
\* exported and without the key, whose record C lacks the key too.
C6_Witness ==
    /\ pc = "returned"
    /\ ret.ok
    /\ \E k \in 1..Len(arg.s.fields) : arg.s.fields[k] = Field(FALSE, NoTag, Named("C"))
    /\ \E k \in 1..Len(arg.s.fields) : arg.s.fields[k].exported
    /\ decls["C"] = Struct(<<Bad>>)

----------------------------------------------------------------------------
(* Claims about structAndPos.                                              *)

\* t is a named type whose underlying type is a record
NamedRecord(t) == t.kind = "Named" /\ decls[t.name].kind = "Struct"

\* C8: structAndPos removes exactly one level of indirection: a named record
\* or a pointer to one resolves to the record and the position of its name;
\* two or more levels, or a type that is no record, do not resolve.
C8_UnwrapsOneLevel ==
    pc # "running" =>
        LET t == TypeOf(arg)
        IN  /\ NamedRecord(t) => ret = Resolved(decls[t.name], NamedPos(t.name))
            /\ (t.kind = "Pointer" /\ NamedRecord(t.elem))
                    => ret = Resolved(decls[t.elem.name], NamedPos(t.elem.name))
            /\ (t.kind = "Pointer" /\ t.elem.kind = "Pointer") => ret = NotResolved
            /\ (t.kind # "Pointer" /\ t.kind # "Struct" /\ ~NamedRecord(t))
                    => ret = NotResolved
            /\ (t.kind = "Pointer" /\ t.elem.kind # "Struct" /\ ~NamedRecord(t.elem))
                    => ret = NotResolved

\* C8 witness: an argument that is a pointer to a pointer to record A was
\* not resolved.
C8_Witness ==
    /\ pc = "returned"
    /\ TypeOf(arg) = Pointer(Pointer(Named("A")))
    /\ ret = NotResolved

\* the argument's type is an anonymous record, or one pointer to it
OfAnonymousRecord == Unwrap(TypeOf(arg)).kind = "Struct"

----------------------------------------------------------------------------
(* Claims about the raw tag.                                               *)

\* C10 as stated: the field counts as tagged exactly when a token of its raw
\* tag, split at whitespace (space or tab), starts with `json:`.
C10_SplitAtWhitespace ==
    pc = "returned" => (ret.ok <=> HasKeyToken(arg, jsonTag, {" ", "\t"}))

\* C10 amended: the field counts as tagged exactly when a token of its raw
\* tag, split at the space character alone, starts with `json:`.
C10_SplitAtSpace ==
    pc = "returned" => (ret.ok <=> HasKeyToken(arg, jsonTag, {" "}))

\* C10 witness: a raw tag whose second token, after a space, starts with
\* `json:` and whose first does not, was found tagged.
C10_Witness ==
    /\ pc = "returned"
    /\ ret.ok
    /\ Len(arg) > 6
    /\ SubSeq(arg, 1, 2) = <<"x", " ">>
    /\ SubSeq(arg, 3, 7) = jsonTag \o <<":">>

====
